---- MODULE Spec2Model ----
(***************************************************************************)
(* Model of analyze.py (entorb/analyze-ha-energy): the batch run that      *)
(* reads the cumulative meter readings of one sensor from the Home         *)
(* Assistant SQLite database, derives the hourly / daily / weekly /        *)
(* monthly tables, the last-14-days table and the goal-reached series,     *)
(* exports the CSV files and plots.                                        *)
(*                                                                         *)
(* Units.  start_ts is seconds since the epoch (UTC), as in the database.  *)
(* Energy is counted in eighths of a kWh (125 Wh): every reading k stands  *)
(* for the float k/8, which is exact in binary floating point, so that the *)
(* differences, sums and comparisons of the code are exact integers here.  *)
(* A calendar date is its proleptic Gregorian ordinal (date.toordinal()).  *)
(* A local (Europe/Berlin) datetime is its wall clock, in seconds since    *)
(* 1970-01-01 00:00 of that wall clock.                                    *)
(***************************************************************************)
EXTENDS Integers, Sequences, FiniteSets, TLC

VARIABLES
    tables_ok,    \* input: the database file holds the statistics table
    db,           \* input: the rows the query selects, in created_ts order
    con,          \* the sqlite3 connection: "none", "open" or "closed"
    pc,           \* position of the run
    df_read,      \* the table read_sql_query returned
    df_hour,      \* result of prepare_df_hours (prepare_df_day adds "date")
    df_day,       \* result of prepare_df_day
    df_week,      \* result of prepare_df_week, later padded for plotting
    df_month,     \* result of prepare_df_month, later padded for plotting
    KWH_SUM,      \* the reported total
    df_hour_14d,  \* result of prepare_df_last_14_days
    out,          \* the exported CSV files out/day.csv, week.csv, month.csv
    today,        \* the date of the rows added to df_week and df_month
    wh_target,    \* the target of the last call of the goal-reached analysis
    df_goal,      \* last result of prepare_df_hours_goal_reached
    MAX_KWH,      \* the globals MAX_KWH_PER_HOUR and MAX_KWH_PER_DAY
    err           \* the exception that ended the run

vars == <<tables_ok, db, con, pc, df_read, df_hour, df_day, df_week, df_month,
          KWH_SUM, df_hour_14d, out, today, wh_target, df_goal, MAX_KWH, err>>

(***************************************************************************)
(* Values that stand for "no such value".                                  *)
(***************************************************************************)
Unbound == <<>>                        \* a name not assigned yet, a column not there
Bound(v) == <<v>>                      \* a name bound to v
NaN == [nan |-> TRUE]                  \* float("nan")
Float(k) == [nan |-> FALSE, v |-> k]   \* the float k/8
Returned(v) == [exc |-> "none", val |-> v]   \* a call that returned v
Raised(e) == [exc |-> e]                     \* a call that raised exception e

(***************************************************************************)
(* Calendar arithmetic, as datetime / pandas compute it.                   *)
(***************************************************************************)
SecondsPerHour == 3600
SecondsPerDay == 86400
EpochOrdinal == 719163     \* date(1970, 1, 1).toordinal()

IsLeap(y) == y % 4 = 0 /\ (y % 100 # 0 \/ y % 400 = 0)

DaysBeforeYear(y) ==
    LET p == y - 1 IN p * 365 + (p \div 4) - (p \div 100) + (p \div 400)

DaysInMonth(y, m) ==
    IF m = 2 THEN (IF IsLeap(y) THEN 29 ELSE 28)
    ELSE IF m \in {4, 6, 9, 11} THEN 30 ELSE 31

RECURSIVE DaysBeforeMonth(_, _)
DaysBeforeMonth(y, m) ==
    IF m = 1 THEN 0 ELSE DaysBeforeMonth(y, m - 1) + DaysInMonth(y, m - 1)

\* date(y, m, d).toordinal()
Ymd2Ord(y, m, d) == DaysBeforeYear(y) + DaysBeforeMonth(y, m) + d

\* year of the date with ordinal n (the 400/100/4/1-year cycle division)
YearOfOrd(n) ==
    LET n0   == n - 1
        n400 == n0 \div 146097
        r400 == n0 % 146097
        n100 == r400 \div 36524
        r100 == r400 % 36524
        n4   == r100 \div 1461
        r4   == r100 % 1461
        n1   == r4 \div 365
        y    == n400 * 400 + n100 * 100 + n4 * 4 + n1 + 1
    IN  IF n1 = 4 \/ n100 = 4 THEN y - 1 ELSE y

RECURSIVE MonthFrom(_, _, _)
\* month holding day number k (1-based) of year y, searching from month m
MonthFrom(y, m, k) ==
    IF k <= DaysInMonth(y, m) THEN m ELSE MonthFrom(y, m + 1, k - DaysInMonth(y, m))

MonthOfOrd(n) ==
    LET y == YearOfOrd(n) IN MonthFrom(y, 1, n - DaysBeforeYear(y))

DayOfOrd(n) ==
    LET y == YearOfOrd(n) IN n - DaysBeforeYear(y) - DaysBeforeMonth(y, MonthOfOrd(n))

\* Monday = 0 ... Sunday = 6
Weekday(n) == (n + 6) % 7

\* ordinal of the Monday of ISO week 1 of year y
IsoWeek1Monday(y) ==
    LET firstday == Ymd2Ord(y, 1, 1)
        firstweekday == Weekday(firstday)
        monday == firstday - firstweekday
    IN  IF firstweekday > 3 THEN monday + 7 ELSE monday

\* date.isocalendar(): <<ISO year, ISO week>> of the date with ordinal n
IsoCalendar(n) ==
    LET y  == YearOfOrd(n)
        w  == (n - IsoWeek1Monday(y)) \div 7
    IN  IF w < 0
        THEN <<y - 1, ((n - IsoWeek1Monday(y - 1)) \div 7) + 1>>
        ELSE IF w >= 52 /\ n >= IsoWeek1Monday(y + 1)
             THEN <<y + 1, 1>>
             ELSE <<y, w + 1>>

IsoWeek(n) == IsoCalendar(n)[2]

\* the time zone Europe/Berlin: CET (UTC+1), and CEST (UTC+2) from 01:00 UTC
\* of the last Sunday of March to 01:00 UTC of the last Sunday of October
LastSundayOf(y, m) ==
    LET last == Ymd2Ord(y, m, 31) IN last - ((Weekday(last) + 1) % 7)

UtcOffset(ts) ==
    LET y == YearOfOrd(EpochOrdinal + (ts \div SecondsPerDay))
        from == (LastSundayOf(y, 3) - EpochOrdinal) * SecondsPerDay + SecondsPerHour
        to   == (LastSundayOf(y, 10) - EpochOrdinal) * SecondsPerDay + SecondsPerHour
    IN  IF from <= ts /\ ts < to THEN 2 * SecondsPerHour ELSE SecondsPerHour

\* pd.to_datetime(ts, unit="s", utc=True).tz_convert("Europe/Berlin")
ToLocal(ts) == ts + UtcOffset(ts)

\* Timestamp.date() / DatetimeIndex.date of a local datetime
DateOf(wall) == EpochOrdinal + (wall \div SecondsPerDay)

\* Timestamp.normalize(): midnight of the same day
Normalize(wall) == wall - (wall % SecondsPerDay)

(***************************************************************************)
(* Small helpers over sets and sequences.                                  *)
(***************************************************************************)
Min(S) == CHOOSE x \in S : \A y \in S : x <= y
Max(S) == CHOOSE x \in S : \A y \in S : x >= y

RECURSIVE SumSeq(_)
SumSeq(s) == IF s = <<>> THEN 0 ELSE Head(s) + SumSeq(Tail(s))

LexLeq(a, b) == a[1] < b[1] \/ (a[1] = b[1] /\ a[2] <= b[2])

RECURSIVE SortedPairs(_)
\* the pairs of a set in lexicographic order: the order of a groupby's keys
SortedPairs(K) ==
    IF K = {} THEN <<>>
    ELSE LET m == CHOOSE k \in K : \A j \in K : LexLeq(k, j)
         IN  <<m>> \o SortedPairs(K \ {m})

\* round(num / den) to the nearest integer, a tie to the even one (den > 0)
RoundHalfEven(num, den) ==
    LET q == num \div den
        r == num % den
    IN  IF 2 * r < den THEN q
        ELSE IF 2 * r > den THEN q + 1
        ELSE IF q % 2 = 0 THEN q ELSE q + 1

(***************************************************************************)
(* prepare_df_hours                                                        *)
(***************************************************************************)
\* df["kWh_sum"].shift(-1): the reading of the next row, NaN for the last
ShiftMinus1(df, i) == IF i < Len(df) THEN Float(df[i + 1].kWh_sum) ELSE NaN

\* float subtraction: NaN if an operand is NaN
FloatSub(a, b) == IF a.nan \/ b.nan THEN NaN ELSE Float(a.v - b.v)

prepare_df_hours(df) ==
    [i \in 1..Len(df) |->
        [datetime |-> ToLocal(df[i].start_ts),
         kWh      |-> FloatSub(ShiftMinus1(df, i), Float(df[i].kWh_sum)),
         date     |-> Unbound]]

(***************************************************************************)
(* prepare_df_day                                                          *)
(***************************************************************************)
\* df["date"] = pd.to_datetime(df.index.date), on the caller's table
WithDate(df) == [i \in 1..Len(df) |-> [df[i] EXCEPT !.date = Bound(DateOf(df[i].datetime))]]

\* the kWh of the rows of one date, NaN skipped
KWhOfDate(df, d) ==
    LET rows == SelectSeq(df, LAMBDA r : r.date = Bound(d) /\ ~r.kWh.nan)
    IN  [i \in 1..Len(rows) |-> rows[i].kWh.v]

\* df[["kWh", "date"]].groupby(["date"]).sum(): date -> sum of kWh
GroupByDateSum(df) ==
    [d \in {df[i].date[1] : i \in 1..Len(df)} |-> SumSeq(KWhOfDate(df, d))]

\* pd.date_range(lo, hi, freq="D")
DateRange(lo, hi) == [k \in 1..(hi - lo + 1) |-> lo + k - 1]

RECURSIVE SortedSeq(_)
\* the elements of a set of integers in ascending order
SortedSeq(S) == IF S = {} THEN <<>> ELSE <<Min(S)>> \o SortedSeq(S \ {Min(S)})

\* mutant: no reindex, the grouped dates only
ReindexDaily_Skipped(tbl) ==
    LET idx == SortedSeq(DOMAIN tbl)
    IN  [k \in 1..Len(idx) |-> [date |-> idx[k], val |-> tbl[idx[k]]]]

\* tbl.reindex(pd.date_range(tbl.index.min(), tbl.index.max()), fill_value=0)
ReindexDaily(tbl) ==
    LET idx == DateRange(Min(DOMAIN tbl), Max(DOMAIN tbl))
    IN  [k \in 1..Len(idx) |->
            [date |-> idx[k],
             val  |-> IF idx[k] \in DOMAIN tbl THEN tbl[idx[k]] ELSE 0]]

\* the year, month and week columns of one day
DayRow(d, kwh) ==
    [date |-> d, kWh |-> kwh,
     year |-> YearOfOrd(d), month |-> MonthOfOrd(d), week |-> IsoWeek(d)]

\* raises for an empty table: date_range has neither start nor end
prepare_df_day(df) ==
    IF Len(df) = 0 THEN Raised("ValueError")
    ELSE LET days == ReindexDaily(GroupByDateSum(WithDate(df)))
         IN  Returned([k \in 1..Len(days) |-> DayRow(days[k].date, days[k].val)])

(***************************************************************************)
(* get_date_of_week_start, prepare_df_week, prepare_df_month               *)
(***************************************************************************)
\* ISO years have 53 weeks when they start on a Thursday, and leap years
\* when they start on a Wednesday
HasWeek53(y) ==
    LET first_weekday == Ymd2Ord(y, 1, 1) % 7
    IN  first_weekday = 4 \/ (first_weekday = 3 /\ IsLeap(y))

\* dt.date.fromisocalendar(year, week_number, 1): the date of the Monday,
\* ValueError for a week the year does not have
get_date_of_week_start(year, week_number) ==
    IF week_number < 1 \/ week_number > 53 \/ (week_number = 53 /\ ~HasWeek53(year))
    THEN Raised("ValueError")
    ELSE Returned(IsoWeek1Monday(year) + (week_number - 1) * 7)

\* the kWh of the days of one group, in table order
KWhOfGroup(df_d, key, k) ==
    LET rows == SelectSeq(df_d, LAMBDA r : <<r.year, r[key]>> = k)
    IN  [i \in 1..Len(rows) |-> rows[i].kWh]

\* .groupby(["year", key]).agg(kWh_sum=sum, kWh_mean=mean).reset_index();
\* a mean is the pair of its numerator and denominator
GroupByYearAnd(df_d, key) ==
    LET keys == SortedPairs({<<df_d[i].year, df_d[i][key]>> : i \in 1..Len(df_d)})
    IN  [j \in 1..Len(keys) |->
            LET kwh == KWhOfGroup(df_d, key, keys[j])
            IN  [year |-> keys[j][1], period |-> keys[j][2],
                 kWh_sum |-> SumSeq(kwh),
                 kWh_mean |-> [num |-> SumSeq(kwh), den |-> Len(kwh)]]]

\* the grouped row with its index date
Indexed(g, d) ==
    [date |-> d, year |-> g.year, period |-> g.period,
     kWh_sum |-> g.kWh_sum, kWh_mean |-> g.kWh_mean]

prepare_df_week(df_d) ==
    LET g == GroupByYearAnd(df_d, "week")
    IN  IF \E j \in 1..Len(g) : get_date_of_week_start(g[j].year, g[j].period).exc # "none"
        THEN Raised("ValueError")
        ELSE Returned([j \in 1..Len(g) |->
                Indexed(g[j], get_date_of_week_start(g[j].year, g[j].period).val)])

\* mutant: the month is labelled with its last day
MonthStart_MonthEnd(year, month) == Ymd2Ord(year, month, DaysInMonth(year, month))

\* pd.to_datetime(str(year) + "-" + str(month) + "-01")
MonthStart(year, month) == Ymd2Ord(year, month, 1)

prepare_df_month(df_d) ==
    LET g == GroupByYearAnd(df_d, "month")
    IN  [j \in 1..Len(g) |-> Indexed(g[j], MonthStart(g[j].year, g[j].period))]

(***************************************************************************)
(* prepare_df_last_14_days, and the days plot_last_14_days draws           *)
(***************************************************************************)
WindowDays == 14

\* the rows after midnight of (time of the last row - 14 days), each with
\* its date, days_past, time and hour; the time zone is dropped.
\* df.index[-1] raises IndexError for a table without rows
prepare_df_last_14_days(df) ==
    IF Len(df) = 0 THEN Raised("IndexError")
    ELSE LET limit == Normalize(df[Len(df)].datetime - WindowDays * SecondsPerDay)
             sel == SelectSeq(df, LAMBDA r : r.datetime > limit)
             last_day == DateOf(sel[Len(sel)].datetime)
         IN  Returned([i \in 1..Len(sel) |->
                [datetime  |-> sel[i].datetime,
                 kWh       |-> sel[i].kWh,
                 date      |-> DateOf(sel[i].datetime),
                 days_past |-> last_day - DateOf(sel[i].datetime),
                 time      |-> sel[i].datetime % SecondsPerDay,
                 hour      |-> (sel[i].datetime % SecondsPerDay) \div SecondsPerHour]])

\* days = max(df_hour2["days_past"])
PlotDays(df_hour2) == Max({df_hour2[i].days_past : i \in 1..Len(df_hour2)})

\* the values of i in "for i in range(days)": the days_past that get a subplot
PlottedDaysPast(df_hour2) == 0..(PlotDays(df_hour2) - 1)

\* plot_last_14_days: max() of no rows raises ValueError; subplots(nrows=days)
\* needs days >= 1 and gives an array to index with ax[i] only for days >= 2;
\* .iloc[0] needs a row for every i
plot_last_14_days(df_hour2) ==
    IF Len(df_hour2) = 0 THEN Raised("ValueError")
    ELSE IF PlotDays(df_hour2) < 1 THEN Raised("ValueError")
    ELSE IF PlotDays(df_hour2) < 2 THEN Raised("TypeError")
    ELSE IF \E i \in PlottedDaysPast(df_hour2) :
                \A j \in 1..Len(df_hour2) : df_hour2[j].days_past # i
         THEN Raised("IndexError")
    ELSE Returned(PlottedDaysPast(df_hour2))

(***************************************************************************)
(* prepare_df_hours_goal_reached                                           *)
(***************************************************************************)
RollWindow == 7

\* mutant: > in place of >=
ReachedTarget_Strict(kWh, wh) == ~kWh.nan /\ 125 * kWh.v > wh

\* df_hour["kWh"] >= wh_target / 1000, for kWh = k/8: NaN compares False
ReachedTarget(kWh, wh) == ~kWh.nan /\ 125 * kWh.v >= wh

\* .groupby(["date"]).agg(count=("kWh", "count")): date -> number of rows
GroupByDateCount(df) ==
    LET dates == {DateOf(df[i].datetime) : i \in 1..Len(df)}
    IN  [d \in dates |-> Cardinality({i \in 1..Len(df) : DateOf(df[i].datetime) = d})]

\* if date_last != date_last_source: df.loc[date_last_source] = 0
\* (date_last is the last, that is the greatest, date of the grouped table)
PadToLastSource(tbl, date_last_source) ==
    IF Max(DOMAIN tbl) # date_last_source
    THEN [d \in DOMAIN tbl \cup {date_last_source} |->
            IF d = date_last_source THEN 0 ELSE tbl[d]]
    ELSE tbl

\* .rolling(window=7, min_periods=1).mean().round(1), in tenths
Roll(days, k) ==
    LET lo == IF k > RollWindow THEN k - RollWindow + 1 ELSE 1
        win == [i \in 1..(k - lo + 1) |-> days[lo + i - 1].val]
    IN  RoundHalfEven(10 * SumSeq(win), Len(win))

prepare_df_hours_goal_reached(df_h, wh) ==
    IF Len(df_h) = 0 THEN Raised("IndexError")
    ELSE LET date_last_source == DateOf(df_h[Len(df_h)].datetime)
             df == SelectSeq(df_h, LAMBDA r : ReachedTarget(r.kWh, wh))
         IN  IF Len(df) = 0 THEN Raised("ValueError")
             ELSE LET days == ReindexDaily(
                                PadToLastSource(GroupByDateCount(df), date_last_source))
                  IN  Returned([k \in 1..Len(days) |->
                         [date |-> days[k].date, count |-> days[k].val,
                          roll |-> Roll(days, k)]])

(***************************************************************************)
(* The calculations, the export and the padding of the main run            *)
(***************************************************************************)
Column(df, name) == [i \in 1..Len(df) |-> df[i][name]]

\* int(round(df_month["kWh_sum"].sum(), 0)), in kWh
KwhSum(df_m) == RoundHalfEven(SumSeq(Column(df_m, "kWh_sum")), 8)

\* df_hour["kWh"].max(): NaN is skipped, NaN when there is nothing else
MaxKwhPerHour(df_h) ==
    LET vals == {df_h[i].kWh.v : i \in {j \in 1..Len(df_h) : ~df_h[j].kWh.nan}}
    IN  IF vals = {} THEN NaN ELSE Float(Max(vals))

MaxKwhPerDay(df_d) == Max({df_d[i].kWh : i \in 1..Len(df_d)})

RECURSIVE FloorLog2(_)
\* the binary exponent of m >= 1: the greatest L with 2^L <= m
FloorLog2(m) == IF m < 2 THEN 0 ELSE 1 + FloorLog2(m \div 2)

RECURSIVE Pow2(_)
Pow2(k) == IF k = 0 THEN 1 ELSE 2 * Pow2(k - 1)

RECURSIVE Pow2Mod125(_)
Pow2Mod125(k) == IF k = 0 THEN 1 ELSE (2 * Pow2Mod125(k - 1)) % 125

\* The mean of a group is the double x nearest to m / 2000 (m odd, m >= 1)
\* and .round(3) computes rint(x * 1000), where x * 1000 is again rounded to
\* a double.  The result is +1 when that product lies above m / 2, -1 when
\* it lies below, 0 when it is m / 2 exactly.
\*   With L the binary exponent of m, x has the exponent L - 10 when
\* 64 * m >= 125 * 2^L and L - 11 otherwise.  Its 53-bit significand is
\* m * 2^(58 - L) / 125 rounded to an integer, c / 125 away from it, c the
\* residue of -m * 2^(58 - L) modulo 125 in -62..62; x * 1000 is c / 64 units
\* in the last place of m / 2 away from m / 2 in the first case (it rounds off
\* m / 2 when |c| > 32) and c / 128 in the second (it never does).
DoubleDrift(m) ==
    LET L == FloorLog2(m)
        t == (125 - ((m * Pow2Mod125(58 - L)) % 125)) % 125
        c == IF t <= 62 THEN t ELSE t - 125
    IN  IF 64 * m < 125 * Pow2(L) THEN 0
        ELSE IF c > 32 THEN 1
        ELSE IF c < -32 THEN -1
        ELSE 0

\* .round(3) of the double (num / 8) / den, in thousandths of a kWh
\* (den >= 1): numpy's rint(x * 1000) / 1000.  num / 8 is exact and the
\* division is correctly rounded; away from a tie the doubles' errors are far
\* too small to change the nearest integer of 125 * num / den, at a tie
\* (125 * num / den = q + 1/2, the mean is (2 q + 1) / 2000) they decide it,
\* and rint's tie goes to the even integer when the product is exact.
Round3(num, den) ==
    LET a == IF num < 0 THEN -num ELSE num
        q == (125 * a) \div den
        r == (125 * a) % den
        d == DoubleDrift(2 * q + 1)
        n == IF 2 * r < den THEN q
             ELSE IF 2 * r > den THEN q + 1
             ELSE IF d > 0 THEN q + 1
             ELSE IF d < 0 THEN q
             ELSE IF q % 2 = 0 THEN q ELSE q + 1
    IN  IF num < 0 THEN -n ELSE n

\* df_day["kWh"].round(3).to_csv(...)
ExportDay(df_d) ==
    [i \in 1..Len(df_d) |-> [date |-> df_d[i].date, kWh |-> Round3(df_d[i].kWh, 1)]]

\* df[["kWh_sum", "kWh_mean"]].round(3).to_csv(...)
ExportSumMean(df) ==
    [i \in 1..Len(df) |->
        [date |-> df[i].date,
         kWh_sum |-> Round3(df[i].kWh_sum, 1),
         kWh_mean |-> Round3(df[i].kWh_mean.num, df[i].kWh_mean.den)]]

\* last_values = df.iloc[-1]; df.loc[day] = last_values: the row of that
\* date is overwritten, or a row is appended when there is none
PadToday(df, day) ==
    LET last_values == df[Len(df)]
    IN  IF \E i \in 1..Len(df) : df[i].date = day
        THEN [i \in 1..Len(df) |->
                IF df[i].date = day THEN [last_values EXCEPT !.date = day] ELSE df[i]]
        ELSE Append(df, [last_values EXCEPT !.date = day])

(***************************************************************************)
(* Inputs                                                                  *)
(***************************************************************************)
MaxObs == 3         \* rows the query returns, at most
MaxSpanDays == 16   \* days between the earliest and the latest start_ts

\* 2024-12-17 00:30, 2024-12-30 12:00, 2024-12-30 13:00, 2024-12-30 23:30,
\* 2025-01-01 12:00, 2020-12-31 12:00, 2021-01-01 12:00 and 2025-06-30 22:30,
\* all UTC: a year boundary inside ISO week 1, one inside ISO week 53, a
\* summer time, and local dates (UTC+1, UTC+2) a day after the UTC date
Timestamps == {1734395400, 1735560000, 1735563600, 1735601400, 1735732800,
               1609416000, 1609502400, 1751322600}

\* meter readings, in eighths of a kWh
Readings == {0, 1, 12}

Observations == [start_ts : Timestamps, kWh_sum : Readings]

WithinSpan(rows) ==
    \A i, j \in 1..Len(rows) :
        rows[i].start_ts - rows[j].start_ts <= MaxSpanDays * SecondsPerDay

\* the statistics table holds one row per sensor and start_ts
DistinctStarts(rows) ==
    \A i, j \in 1..Len(rows) : i # j => rows[i].start_ts # rows[j].start_ts

\* the rows come in created_ts order, which need not be start_ts order
Databases ==
    {rows \in UNION {[1..n -> Observations] : n \in 0..MaxObs} :
        WithinSpan(rows) /\ DistinctStarts(rows)}

\* dates pd.Timestamp.now() may give: 2024-12-30, 2025-01-01, 2025-02-18
Todays == {739250, 739252, 739300}

\* for wh_target in (50, 100, 200)
WhTargets == <<50, 100, 200>>

(***************************************************************************)
(* The main run                                                            *)
(***************************************************************************)
\* mutant: the rows for plotting are added right after the aggregation
MainSteps_PadFirst ==
    <<"connect", "query", "close", "hours", "day", "week", "month", "pad",
      "calc", "last14", "export", "plot", "goal", "done">>

MainSteps ==
    <<"connect", "query", "close", "hours", "day", "week", "month", "calc",
      "last14", "export", "pad", "plot", "goal", "done">>

NextStep(p) == MainSteps[(CHOOSE i \in 1..Len(MainSteps) : MainSteps[i] = p) + 1]

NoError == [exc |-> "none", at |-> "none"]

Fail(exc, at) ==
    /\ pc' = "failed"
    /\ err' = [exc |-> exc, at |-> at]

Init ==
    /\ tables_ok \in BOOLEAN
    /\ db \in Databases
    /\ (~tables_ok => db = <<>>)
    /\ con = "none"
    /\ pc = "connect"
    /\ df_read = Unbound
    /\ df_hour = Unbound
    /\ df_day = Unbound
    /\ df_week = Unbound
    /\ df_month = Unbound
    /\ KWH_SUM = Unbound
    /\ MAX_KWH = Unbound
    /\ df_hour_14d = Unbound
    /\ out = Unbound
    /\ today = Unbound
    /\ wh_target = Unbound
    /\ df_goal = Unbound
    /\ err = NoError

\* con = sqlite3.connect("home-assistant_v2.db")
Connect ==
    /\ pc = "connect"
    /\ con' = "open"
    /\ pc' = NextStep("connect")
    /\ UNCHANGED <<tables_ok, db, df_read, df_hour, df_day, df_week, df_month, KWH_SUM,
                   df_hour_14d, out, today, wh_target, df_goal, MAX_KWH, err>>

\* df = pd.read_sql_query(sql, con, params=(SENSOR_ID,))
Query ==
    /\ pc = "query"
    /\ tables_ok
    /\ df_read' = Bound(db)
    /\ pc' = NextStep("query")
    /\ UNCHANGED <<tables_ok, db, con, df_hour, df_day, df_week, df_month, KWH_SUM,
                   df_hour_14d, out, today, wh_target, df_goal, MAX_KWH, err>>

\* read_sql_query raises (no such table): the exception leaves read_database
\* and the run
QueryFails ==
    /\ pc = "query"
    /\ ~tables_ok
    /\ Fail("DatabaseError", "query")
    /\ UNCHANGED <<tables_ok, db, con, df_read, df_hour, df_day, df_week, df_month,
                   KWH_SUM, df_hour_14d, out, today, wh_target, df_goal, MAX_KWH>>

\* con.close(); return df
Close ==
    /\ pc = "close"
    /\ con' = "closed"
    /\ pc' = NextStep("close")
    /\ UNCHANGED <<tables_ok, db, df_read, df_hour, df_day, df_week, df_month, KWH_SUM,
                   df_hour_14d, out, today, wh_target, df_goal, MAX_KWH, err>>

\* df_hour = prepare_df_hours(read_database())
PrepareHours ==
    /\ pc = "hours"
    /\ df_hour' = Bound(prepare_df_hours(df_read[1]))
    /\ pc' = NextStep("hours")
    /\ UNCHANGED <<tables_ok, db, con, df_read, df_day, df_week, df_month, KWH_SUM,
                   df_hour_14d, out, today, wh_target, df_goal, MAX_KWH, err>>

\* df_day = prepare_df_day(df_hour); the date column is added to df_hour too
PrepareDay ==
    /\ pc = "day"
    /\ df_hour' = Bound(WithDate(df_hour[1]))
    /\ LET r == prepare_df_day(df_hour[1])
       IN  IF r.exc = "none"
           THEN df_day' = Bound(r.val) /\ pc' = NextStep("day") /\ UNCHANGED err
           ELSE Fail(r.exc, "day") /\ UNCHANGED df_day
    /\ UNCHANGED <<tables_ok, db, con, df_read, df_week, df_month, KWH_SUM,
                   df_hour_14d, out, today, wh_target, df_goal, MAX_KWH>>

\* df_week = prepare_df_week(df_day)
PrepareWeek ==
    /\ pc = "week"
    /\ LET r == prepare_df_week(df_day[1])
       IN  IF r.exc = "none"
           THEN df_week' = Bound(r.val) /\ pc' = NextStep("week") /\ UNCHANGED err
           ELSE Fail(r.exc, "week") /\ UNCHANGED df_week
    /\ UNCHANGED <<tables_ok, db, con, df_read, df_hour, df_day, df_month, KWH_SUM,
                   df_hour_14d, out, today, wh_target, df_goal, MAX_KWH>>

\* df_month = prepare_df_month(df_day)
PrepareMonth ==
    /\ pc = "month"
    /\ df_month' = Bound(prepare_df_month(df_day[1]))
    /\ pc' = NextStep("month")
    /\ UNCHANGED <<tables_ok, db, con, df_read, df_hour, df_day, df_week, KWH_SUM,
                   df_hour_14d, out, today, wh_target, df_goal, MAX_KWH, err>>

\* 1.1 calculations: KWH_SUM, MAX_KWH_PER_HOUR, MAX_KWH_PER_DAY
Calc ==
    /\ pc = "calc"
    /\ KWH_SUM' = Bound(KwhSum(df_month[1]))
    /\ MAX_KWH' = Bound([hour |-> MaxKwhPerHour(df_hour[1]), day |-> MaxKwhPerDay(df_day[1])])
    /\ pc' = NextStep("calc")
    /\ UNCHANGED <<tables_ok, db, con, df_read, df_hour, df_day, df_week, df_month,
                   df_hour_14d, out, today, wh_target, df_goal, err>>

\* 2.1 df_hour_14d = prepare_df_last_14_days(df_hour); 2.2 only prints
Last14 ==
    /\ pc = "last14"
    /\ LET r == prepare_df_last_14_days(df_hour[1])
       IN  IF r.exc = "none"
           THEN df_hour_14d' = Bound(r.val) /\ pc' = NextStep("last14") /\ UNCHANGED err
           ELSE Fail(r.exc, "last14") /\ UNCHANGED df_hour_14d
    /\ UNCHANGED <<tables_ok, db, con, df_read, df_hour, df_day, df_week, df_month,
                   KWH_SUM, out, today, wh_target, df_goal, MAX_KWH>>

\* 3.1 export of out/day.csv, out/week.csv, out/month.csv
Export ==
    /\ pc = "export"
    /\ out' = Bound([day   |-> ExportDay(df_day[1]),
                     week  |-> ExportSumMean(df_week[1]),
                     month |-> ExportSumMean(df_month[1])])
    /\ pc' = NextStep("export")
    /\ UNCHANGED <<tables_ok, db, con, df_read, df_hour, df_day, df_week, df_month,
                   KWH_SUM, df_hour_14d, today, wh_target, df_goal, MAX_KWH, err>>

\* 3.2 today = pd.Timestamp.now().normalize(); the last values of df_week
\* and df_month are written at today
Pad ==
    /\ pc = "pad"
    /\ \E day \in Todays :
        /\ today' = Bound(day)
        /\ df_week' = Bound(PadToday(df_week[1], day))
        /\ df_month' = Bound(PadToday(df_month[1], day))
    /\ pc' = NextStep("pad")
    /\ UNCHANGED <<tables_ok, db, con, df_read, df_hour, df_day, KWH_SUM,
                   df_hour_14d, out, wh_target, df_goal, MAX_KWH, err>>

\* the plots over all time need nothing of the data; plot_last_14_days does
Plot ==
    /\ pc = "plot"
    /\ LET r == plot_last_14_days(df_hour_14d[1])
       IN  IF r.exc = "none"
           THEN pc' = NextStep("plot") /\ UNCHANGED err
           ELSE Fail(r.exc, "plot")
    /\ UNCHANGED <<tables_ok, db, con, df_read, df_hour, df_day, df_week, df_month,
                   KWH_SUM, df_hour_14d, out, today, wh_target, df_goal, MAX_KWH>>

\* the target after the one of the last call
NextTarget ==
    IF wh_target = Unbound THEN 1
    ELSE (CHOOSE i \in 1..Len(WhTargets) : WhTargets[i] = wh_target[1]) + 1

\* 4. one round of: for wh_target in (50, 100, 200)
Goal ==
    /\ pc = "goal"
    /\ wh_target' = Bound(WhTargets[NextTarget])
    /\ LET r == prepare_df_hours_goal_reached(df_hour[1], WhTargets[NextTarget])
       IN  IF r.exc = "none"
           THEN /\ df_goal' = Bound(r.val)
                /\ pc' = IF NextTarget = Len(WhTargets) THEN NextStep("goal") ELSE "goal"
                /\ UNCHANGED err
           ELSE Fail(r.exc, "goal") /\ UNCHANGED df_goal
    /\ UNCHANGED <<tables_ok, db, con, df_read, df_hour, df_day, df_week, df_month,
                   KWH_SUM, df_hour_14d, out, today, MAX_KWH>>

Next ==
    \/ Connect \/ Query \/ QueryFails \/ Close
    \/ PrepareHours \/ PrepareDay \/ PrepareWeek \/ PrepareMonth
    \/ Calc \/ Last14 \/ Export \/ Pad \/ Plot \/ Goal

Spec == Init /\ [][Next]_vars

(***************************************************************************)
(* prepare_df_hours and prepare_df_hours_goal_reached as functions of      *)
(* their arguments: any table of observations, any target                  *)
(***************************************************************************)
\* targets of the main run, and 125 Wh, which one reading step equals
FnWhTargets == {50, 100, 125, 200}

InitFn ==
    /\ tables_ok = TRUE
    /\ db \in Databases
    /\ con = "none"
    /\ pc = "fn_hours"
    /\ df_read = Unbound
    /\ df_hour = Unbound
    /\ df_day = Unbound
    /\ df_week = Unbound
    /\ df_month = Unbound
    /\ KWH_SUM = Unbound
    /\ MAX_KWH = Unbound
    /\ df_hour_14d = Unbound
    /\ out = Unbound
    /\ today = Unbound
    /\ wh_target = Unbound
    /\ df_goal = Unbound
    /\ err = NoError

FnHours ==
    /\ pc = "fn_hours"
    /\ df_hour' = Bound(prepare_df_hours(db))
    /\ pc' = "fn_goal"
    /\ UNCHANGED <<tables_ok, db, con, df_read, df_day, df_week, df_month, KWH_SUM,
                   df_hour_14d, out, today, wh_target, df_goal, MAX_KWH, err>>

FnGoal ==
    /\ pc = "fn_goal"
    /\ \E wh \in FnWhTargets :
        /\ wh_target' = Bound(wh)
        /\ LET r == prepare_df_hours_goal_reached(df_hour[1], wh)
           IN  IF r.exc = "none"
               THEN df_goal' = Bound(r.val) /\ pc' = "fn_done" /\ UNCHANGED err
               ELSE /\ pc' = "fn_done"
                    /\ err' = [exc |-> r.exc, at |-> "goal"]
                    /\ UNCHANGED df_goal
    /\ UNCHANGED <<tables_ok, db, con, df_read, df_hour, df_day, df_week, df_month,
                   KWH_SUM, df_hour_14d, out, today, MAX_KWH>>

NextFn == FnHours \/ FnGoal

SpecGoal == InitFn /\ [][NextFn]_vars

(***************************************************************************)
(* Properties                                                              *)
(***************************************************************************)
Rows(df) == {df[i] : i \in 1..Len(df)}

\* C1: n >= 1 observations give n - 1 hourly records; the last observation,
\* which has no successor, is dropped and is no row of the hourly table.
C1_OneRowLess ==
    (df_hour # Unbound /\ Len(db) >= 1) => Len(df_hour[1]) = Len(db) - 1

\* C2: every day of the daily table lies in the week of the weekly row it
\* is grouped into: that row's date is a Monday, at most 6 days before it.
C2_WeekStartIsMondayOfDay ==
    pc = "month" =>
        \A d \in Rows(df_day[1]) :
            \E w \in Rows(df_week[1]) :
                /\ w.year = d.year /\ w.period = d.week
                /\ Weekday(w.date) = 0
                /\ w.date <= d.date /\ d.date <= w.date + 6

\* C3: for every (year, week) of the daily table get_date_of_week_start
\* returns a date, whose ISO (year, week) is that pair again.
C3_WeekStartRoundTrip ==
    (df_day # Unbound /\ pc # "week") =>
        \A d \in Rows(df_day[1]) :
            LET r == get_date_of_week_start(d.year, d.week)
            IN  r.exc = "none" /\ IsoCalendar(r.val) = <<d.year, d.week>>

\* C4: once read_database is left, by return or by exception, the
\* connection it opened is closed; no later step and no end of the run
\* sees it open.
C4_ConnectionClosedAfterRead ==
    pc \notin {"connect", "query", "close"} => con = "closed"

\* C5: every row of the last-14-days table is dated after (date of the last
\* observation - 14 days), has days_past in 0..13, and its day is one of
\* those plot_last_14_days goes through.
C5_WindowOf14Days ==
    df_hour_14d # Unbound =>
        LET last_date == DateOf(df_hour[1][Len(df_hour[1])].datetime)
        IN  \A r \in Rows(df_hour_14d[1]) :
                /\ r.date > last_date - 14
                /\ r.days_past \in 0..13
                /\ r.days_past \in PlottedDaysPast(df_hour_14d[1])

\* C6: the dates of the daily table run from the first to the last date of
\* the hourly table, each day once and in order, and a day without hourly
\* row has kWh = 0.
C6_DaysContiguous ==
    df_day # Unbound =>
        LET t == df_day[1]
            dates == {DateOf(df_hour[1][i].datetime) : i \in 1..Len(df_hour[1])}
        IN  /\ Len(t) >= 1
            /\ t[1].date = Min(dates)
            /\ t[Len(t)].date = Max(dates)
            /\ \A k \in 1..(Len(t) - 1) : t[k + 1].date = t[k].date + 1
            /\ \A k \in 1..Len(t) : t[k].date \notin dates => t[k].kWh = 0

C6_Witness ==
    /\ df_day # Unbound
    /\ Len(df_day[1]) >= 3
    /\ \E k \in 1..Len(df_day[1]) :
            /\ \A i \in 1..Len(df_hour[1]) : DateOf(df_hour[1][i].datetime) # df_day[1][k].date
            /\ df_day[1][k].kWh = 0
    /\ \E k \in 1..Len(df_day[1]) : df_day[1][k].kWh > 0

\* the sum of kWh over the days of the table t that lie in month m of year y
SumOfDays(t, y, m) ==
    SumSeq([i \in 1..Len(t) |->
        IF YearOfOrd(t[i].date) = y /\ MonthOfOrd(t[i].date) = m THEN t[i].kWh ELSE 0])

\* C7: for every (year, month) of the daily table the monthly table has one
\* row, whose kWh_sum is the sum of kWh over the days of that calendar
\* month and whose date is the first day of that month.
C7_MonthSum ==
    pc = "calc" =>
        \A k \in {<<d.year, d.month>> : d \in Rows(df_day[1])} :
            LET ms == {w \in Rows(df_month[1]) : w.year = k[1] /\ w.period = k[2]}
            IN  /\ Cardinality(ms) = 1
                /\ \A w \in ms :
                    /\ w.kWh_sum = SumOfDays(df_day[1], k[1], k[2])
                    /\ YearOfOrd(w.date) = k[1]
                    /\ MonthOfOrd(w.date) = k[2]
                    /\ DayOfOrd(w.date) = 1

C7_Witness ==
    /\ pc = "calc"
    /\ Len(df_month[1]) = 2
    /\ df_month[1][1].kWh_sum > 0
    /\ df_month[1][2].kWh_sum > 0
    /\ Len(df_day[1]) >= 3

\* an hourly record that reaches wh Wh: kWh (k/8) >= wh/1000
Qualifies(r, wh) == ~r.kWh.nan /\ 1000 * r.kWh.v >= 8 * wh

\* C8: on a non-empty hourly table prepare_df_hours_goal_reached raises
\* ValueError, and returns nothing, exactly when no hourly record reaches
\* the target; with one that does, it returns a series and raises nothing.
C8_RaisesIffNoHourReached ==
    (pc = "fn_done" /\ Len(df_hour[1]) >= 1) =>
        LET some == \E r \in Rows(df_hour[1]) : Qualifies(r, wh_target[1])
        IN  /\ (err.exc = "ValueError") <=> ~some
            /\ some => (err = NoError /\ df_goal # Unbound /\ Len(df_goal[1]) >= 1)
            /\ ~some => df_goal = Unbound

C8_Witness ==
    /\ pc = "fn_done"
    /\ err.exc = "ValueError"
    /\ \E r \in Rows(df_hour[1]) : ~r.kWh.nan /\ r.kWh.v > 0

\* C9: at every date of the returned series the count is the number of
\* hourly records of that date that reach the target.
C9_CountPerDay ==
    (pc = "fn_done" /\ df_goal # Unbound) =>
        \A g \in Rows(df_goal[1]) :
            g.count = Cardinality({i \in 1..Len(df_hour[1]) :
                          /\ DateOf(df_hour[1][i].datetime) = g.date
                          /\ Qualifies(df_hour[1][i], wh_target[1])})

\* C10: the rows dated today are added only after KWH_SUM is computed and
\* the CSV files are written; the files and the total hold what the
\* aggregation of the daily table gives, without the added rows.
C10_ExportBeforePadding ==
    /\ today # Unbound => (out # Unbound /\ KWH_SUM # Unbound)
    /\ out # Unbound =>
            /\ out[1].week = ExportSumMean(prepare_df_week(df_day[1]).val)
            /\ out[1].month = ExportSumMean(prepare_df_month(df_day[1]))
    /\ KWH_SUM # Unbound =>
            KWH_SUM[1] = RoundHalfEven(
                SumSeq(Column(prepare_df_month(df_day[1]), "kWh_sum")), 8)

C10_Witness ==
    /\ today # Unbound
    /\ Len(df_week[1]) > Len(out[1].week)
    /\ Len(df_month[1]) > Len(out[1].month)
    /\ KWH_SUM[1] > 0

====
